---- MODULE Spec2Model ----
(***************************************************************************)
(* The render callback of the Observable Plot code-block processor         *)
(* (registerMarkdownCodeBlockProcessor('plot', ...)), in its two builds:   *)
(*   "sync"  : src/src/main.ts          (fetch + response.json(), the user *)
(*             code is called synchronously)                               *)
(*   "async" : src/unnamed/part_000:1-205 (format detection, the user code *)
(*             runs in an async function whose promise is not awaited)     *)
(* A text is a sequence of one-character strings.  JavaScript values are   *)
(* records with a tag.  A render pass is a JavaScript async function: one  *)
(* action per run-to-completion segment between two suspension points.     *)
(***************************************************************************)
EXTENDS Naturals, Sequences, FiniteSets, TLC

(* ------------------------------------------------------------------ *)
(* Characters                                                          *)
(* ------------------------------------------------------------------ *)
QT  == "\""
BSL == "\\"
NL  == "\n"
TAB == "\t"
SP  == " "

\* JSON insignificant whitespace (ECMA-404): space, LF, CR, TAB.
JsonWs == {" ", "\n", "\r", "\t"}
\* The regex class \s, on the characters texts are made of here.
RegexWs == {" ", "\n", "\r", "\t", "\f"}
\* Characters a JSON string may not hold unescaped (U+0000..U+001F).
ControlChars == {"\n", "\r", "\t", "\f"}
Digits == {"0", "1", "2", "3", "4", "5", "6", "7", "8", "9"}

(* ------------------------------------------------------------------ *)
(* JavaScript values                                                   *)
(* ------------------------------------------------------------------ *)
\* Every value has the same four fields, so that any two compare.
\*   t: the tag; s: the characters of a string or of a number literal;
\*   keys, kids: an object's member names and values, in insertion order,
\*   or (kids alone) an array's elements.
JV(t, s, keys, kids) == [t |-> t, s |-> s, keys |-> keys, kids |-> kids]
Undefined == JV("undefined", <<>>, <<>>, <<>>)
JNull     == JV("null", <<>>, <<>>, <<>>)
JTrue     == JV("true", <<>>, <<>>, <<>>)
JFalse    == JV("false", <<>>, <<>>, <<>>)
JNum(ds)  == JV("number", ds, <<>>, <<>>)
JStr(cs)  == JV("string", cs, <<>>, <<>>)
JArr(es)  == JV("array", <<>>, <<>>, es)
JObj(ks, vs) == JV("object", <<>>, ks, vs)

\* ToBoolean: undefined, null, false, 0 and "" are falsy; objects and arrays
\* (empty ones too) are truthy.
Truthy(v) ==
    CASE v.t \in {"undefined", "null", "false"} -> FALSE
      [] v.t = "number" -> \E i \in 1..Len(v.s) : v.s[i] \in Digits \ {"0"}
      [] v.t = "string" -> Len(v.s) > 0
      [] OTHER -> TRUE

\* v.key throws a TypeError when v is null or undefined.
CanGet(v) == v.t \notin {"null", "undefined"}

\* v.key for a member name: an object's own member, undefined otherwise
\* (arrays, strings, numbers and booleans have no such own property).
Get(v, key) ==
    IF v.t = "object" /\ \E i \in 1..Len(v.keys) : v.keys[i] = key
    THEN v.kids[CHOOSE i \in 1..Len(v.keys) : v.keys[i] = key]
    ELSE Undefined

Has(v, key) == v.t = "object" /\ \E i \in 1..Len(v.keys) : v.keys[i] = key

\* Define or overwrite a member (a repeated name keeps its first position and
\* takes the last value, as JSON.parse and assignment do).
ObjSet(ks, vs, key, val) ==
    IF \E i \in 1..Len(ks) : ks[i] = key
    THEN [keys |-> ks,
          kids |-> [vs EXCEPT ![CHOOSE i \in 1..Len(ks) : ks[i] = key] = val]]
    ELSE [keys |-> Append(ks, key), kids |-> Append(vs, val)]

(* ------------------------------------------------------------------ *)
(* JSON.parse                                                          *)
(* ------------------------------------------------------------------ *)
PFail == [ok |-> FALSE, pos |-> 0, val |-> Undefined]
POk(pos, val) == [ok |-> TRUE, pos |-> pos, val |-> val]

RECURSIVE SkipWs(_, _)
SkipWs(s, i) ==
    IF i <= Len(s) /\ s[i] \in JsonWs THEN SkipWs(s, i + 1) ELSE i

\* The character an escape \c stands for; "" when \c is no JSON escape.
\* (\b, \f and \uXXXX never occur in the texts of this model.)
Unescape(c) ==
    CASE c = "\"" -> "\""
      [] c = "\\" -> "\\"
      [] c = "/"  -> "/"
      [] c = "n"  -> "\n"
      [] c = "t"  -> "\t"
      [] c = "r"  -> "\r"
      [] OTHER    -> ""

\* The body of a string from position i (after the opening quote).
RECURSIVE StringBody(_, _, _)
StringBody(s, i, acc) ==
    IF i > Len(s) THEN PFail
    ELSE IF s[i] = QT THEN POk(i + 1, JStr(acc))
    ELSE IF s[i] = BSL
         THEN IF i + 1 > Len(s) \/ Unescape(s[i + 1]) = "" THEN PFail
              ELSE StringBody(s, i + 2, Append(acc, Unescape(s[i + 1])))
    ELSE IF s[i] \in ControlChars THEN PFail
    ELSE StringBody(s, i + 1, Append(acc, s[i]))

RECURSIVE DigitsEnd(_, _)
DigitsEnd(s, i) ==
    IF i <= Len(s) /\ s[i] \in Digits THEN DigitsEnd(s, i + 1) ELSE i

\* An integer literal: -? (0 | [1-9][0-9]*).  (Fractions and exponents never
\* occur in the texts of this model.)
ParseNumber(s, i) ==
    LET d == IF s[i] = "-" THEN i + 1 ELSE i
    IN  IF d > Len(s) \/ s[d] \notin Digits THEN PFail
        ELSE LET e == IF s[d] = "0" THEN d + 1 ELSE DigitsEnd(s, d)
             IN  POk(e, JNum(SubSeq(s, i, e - 1)))

StartsWithAt(s, i, w) ==
    /\ i + Len(w) - 1 <= Len(s)
    /\ \A k \in 1..Len(w) : s[i + k - 1] = w[k]

ParseLiteral(s, i) ==
    IF StartsWithAt(s, i, <<"t", "r", "u", "e">>) THEN POk(i + 4, JTrue)
    ELSE IF StartsWithAt(s, i, <<"f", "a", "l", "s", "e">>) THEN POk(i + 5, JFalse)
    ELSE IF StartsWithAt(s, i, <<"n", "u", "l", "l">>) THEN POk(i + 4, JNull)
    ELSE PFail

RECURSIVE ParseValue(_, _)
RECURSIVE ParseElements(_, _, _)
RECURSIVE ParseMembers(_, _, _, _)

\* A value starting at position i (whitespace before it already skipped).
ParseValue(s, i) ==
    IF i > Len(s) THEN PFail
    ELSE IF s[i] = QT THEN StringBody(s, i + 1, <<>>)
    ELSE IF s[i] = "{"
         THEN LET j == SkipWs(s, i + 1)
              IN  IF j <= Len(s) /\ s[j] = "}" THEN POk(j + 1, JObj(<<>>, <<>>))
                  ELSE ParseMembers(s, j, <<>>, <<>>)
    ELSE IF s[i] = "["
         THEN LET j == SkipWs(s, i + 1)
              IN  IF j <= Len(s) /\ s[j] = "]" THEN POk(j + 1, JArr(<<>>))
                  ELSE ParseElements(s, j, <<>>)
    ELSE IF s[i] = "-" \/ s[i] \in Digits THEN ParseNumber(s, i)
    ELSE ParseLiteral(s, i)

\* The elements of an array from position i, up to and including "]".
ParseElements(s, i, es) ==
    LET v == ParseValue(s, i)
    IN  IF ~v.ok THEN PFail
        ELSE LET d == SkipWs(s, v.pos)
             IN  IF d > Len(s) THEN PFail
                 ELSE IF s[d] = "]" THEN POk(d + 1, JArr(Append(es, v.val)))
                 ELSE IF s[d] = ","
                      THEN ParseElements(s, SkipWs(s, d + 1), Append(es, v.val))
                 ELSE PFail

\* The members of an object from position i, up to and including "}".
ParseMembers(s, i, ks, vs) ==
    IF i > Len(s) \/ s[i] # QT THEN PFail
    ELSE LET k == StringBody(s, i + 1, <<>>)
         IN  IF ~k.ok THEN PFail
             ELSE LET c == SkipWs(s, k.pos)
                  IN  IF c > Len(s) \/ s[c] # ":" THEN PFail
                      ELSE LET v == ParseValue(s, SkipWs(s, c + 1))
                           IN  IF ~v.ok THEN PFail
                               ELSE LET o == ObjSet(ks, vs, k.val.s, v.val)
                                        d == SkipWs(s, v.pos)
                                    IN  IF d > Len(s) THEN PFail
                                        ELSE IF s[d] = "}"
                                             THEN POk(d + 1, JObj(o.keys, o.kids))
                                        ELSE IF s[d] = ","
                                             THEN ParseMembers(s, SkipWs(s, d + 1),
                                                               o.keys, o.kids)
                                        ELSE PFail

\* JSON.parse(text): [ok |-> TRUE, val |-> the value], or ok = FALSE where
\* JSON.parse throws a SyntaxError.
JSONparse(s) ==
    LET r == ParseValue(s, SkipWs(s, 1))
    IN  IF r.ok /\ SkipWs(s, r.pos) = Len(s) + 1
        THEN [ok |-> TRUE, val |-> r.val]
        ELSE [ok |-> FALSE, val |-> Undefined]

(* ------------------------------------------------------------------ *)
(* ConfigParser: the tolerant recovery of the code section             *)
(* ------------------------------------------------------------------ *)
Min(S) == CHOOSE m \in S : \A k \in S : m <= k

RECURSIVE SkipRegexWs(_, _)
SkipRegexWs(s, i) ==
    IF i <= Len(s) /\ s[i] \in RegexWs THEN SkipRegexWs(s, i + 1) ELSE i

CodeKey == <<"\"", "c", "o", "d", "e", "\"">>

\* Group 1 of the regex, ("code"\s*:\s*"), tried at position i: the position
\* after the opening quote of the value, 0 when it does not match there.
CodeOpenAt(s, i) ==
    IF ~StartsWithAt(s, i, CodeKey) THEN 0
    ELSE LET c == SkipRegexWs(s, i + Len(CodeKey))
         IN  IF c > Len(s) \/ s[c] # ":" THEN 0
             ELSE LET q == SkipRegexWs(s, c + 1)
                  IN  IF q > Len(s) \/ s[q] # QT THEN 0 ELSE q + 1

\* Group 3, ("(?=\s*[}\],])), at position j: a quote that whitespace and then
\* one of } ] , follow.
ClosingAt(s, j) ==
    /\ j <= Len(s)
    /\ s[j] = QT
    /\ LET k == SkipRegexWs(s, j + 1)
       IN  k <= Len(s) /\ s[k] \in {"}", "]", ","}

\* source.match(/("code"\s*:\s*")(.*?)("(?=\s*[}\],]))/s): the leftmost start
\* that matches, and from it the shortest (.*?) (the flag s lets . match a
\* line break).  all is codeMatch[0], g2 is codeMatch[2].
CodeMatch(s) ==
    LET starts == {i \in 1..Len(s) :
                      /\ CodeOpenAt(s, i) > 0
                      /\ \E j \in CodeOpenAt(s, i)..Len(s) : ClosingAt(s, j)}
    IN  IF starts = {}
        THEN [found |-> FALSE, index |-> 0, all |-> <<>>, g2 |-> <<>>]
        ELSE LET i0 == Min(starts)
                 a  == CodeOpenAt(s, i0)
                 j0 == Min({j \in a..Len(s) : ClosingAt(s, j)})
             IN  [found |-> TRUE, index |-> i0,
                  all |-> SubSeq(s, i0, j0), g2 |-> SubSeq(s, a, j0 - 1)]

placeholder ==
    <<"_", "_", "C", "O", "D", "E", "_", "P", "L", "A", "C", "E",
      "H", "O", "L", "D", "E", "R", "_", "_">>

\* `"code":"${placeholder}"`
CodeReplacement == CodeKey \o <<":", "\"">> \o placeholder \o <<"\"">>

\* String.prototype.replace with a string pattern: the first occurrence only.
ReplaceFirst(s, pat, rep) ==
    LET occ == {k \in 1..(Len(s) + 1 - Len(pat)) : SubSeq(s, k, k + Len(pat) - 1) = pat}
    IN  IF Len(pat) > Len(s) \/ occ = {} THEN s
        ELSE LET k == Min(occ)
             IN  SubSeq(s, 1, k - 1) \o rep \o SubSeq(s, k + Len(pat), Len(s))

\* s.replace(/ab/g, r) for a pattern of two characters a b: every occurrence,
\* left to right, without overlap.
RECURSIVE ReplacePair(_, _, _, _)
ReplacePair(s, a, b, r) ==
    IF Len(s) < 2 THEN s
    ELSE IF s[1] = a /\ s[2] = b
         THEN <<r>> \o ReplacePair(SubSeq(s, 3, Len(s)), a, b, r)
         ELSE <<s[1]>> \o ReplacePair(Tail(s), a, b, r)

\* s.replace(/c/g, '')
RemoveChar(s, c) == SelectSeq(s, LAMBDA ch : ch # c)

\* ActualCode without its last substitution: the backslashes that are part of
\* no \n and no \" pair stay.
ActualCodeKeepBackslash(g2) ==
    ReplacePair(ReplacePair(g2, BSL, "n", NL), BSL, QT, QT)

\* codeMatch[2].replace(/\\n/g, '\n').replace(/\\"/g, '"').replace(/\\/g, '')
ActualCode(g2) ==
    RemoveChar(ReplacePair(ReplacePair(g2, BSL, "n", NL), BSL, QT, QT), BSL)

\* config.code = actualCode.  (An array takes the assignment as an expando
\* that no later step reads: an array has neither data nor dataUrl.)
SetCode(config, code) ==
    IF config.t = "object"
    THEN LET o == ObjSet(config.keys, config.kids, <<"c", "o", "d", "e">>, code)
         IN  JObj(o.keys, o.kids)
    ELSE config

\* Error messages are sequences of parts; a part that the JavaScript engine
\* words (a SyntaxError's or a TypeError's message) is named in brackets.
JsonSyntaxError == <<"<SyntaxError of JSON.parse>">>

\* ConfigParser with the recovery tried first: the regex path runs whenever
\* the regex matches, whether or not the source is valid JSON.
ConfigParserRecoveryFirst(source) ==
    LET codeMatch == CodeMatch(source)
        direct == JSONparse(source)
    IN  IF codeMatch.found
        THEN LET withoutCode == ReplaceFirst(source, codeMatch.all, CodeReplacement)
                 second == JSONparse(withoutCode)
             IN  IF second.ok /\ second.val.t \in {"object", "array"}
                 THEN [ok |-> TRUE,
                       config |-> SetCode(second.val, JStr(ActualCode(codeMatch.g2))),
                       path |-> "tolerant", message |-> <<>>]
                 ELSE [ok |-> FALSE, config |-> Undefined, path |-> "tolerant",
                       message |-> <<"Failed to parse JSON: ">> \o JsonSyntaxError]
        ELSE IF direct.ok
             THEN [ok |-> TRUE, config |-> direct.val, path |-> "direct", message |-> <<>>]
             ELSE [ok |-> FALSE, config |-> Undefined, path |-> "nomatch",
                   message |-> <<"Failed to parse JSON and couldn't find code section">>]

\* ConfigParser that gives up the recovery quietly: a source it cannot parse
\* yields the empty configuration {}.
ConfigParserEmptyOnFailure(source) ==
    LET direct == JSONparse(source)
    IN  IF direct.ok
        THEN [ok |-> TRUE, config |-> direct.val, path |-> "direct", message |-> <<>>]
        ELSE LET codeMatch == CodeMatch(source)
             IN  IF codeMatch.found
                 THEN LET withoutCode == ReplaceFirst(source, codeMatch.all, CodeReplacement)
                          second == JSONparse(withoutCode)
                      IN  IF second.ok /\ second.val.t \in {"object", "array"}
                          THEN [ok |-> TRUE,
                                config |-> SetCode(second.val, JStr(ActualCode(codeMatch.g2))),
                                path |-> "tolerant", message |-> <<>>]
                          ELSE [ok |-> TRUE, config |-> JObj(<<>>, <<>>),
                                path |-> "tolerant", message |-> <<>>]
                 ELSE [ok |-> TRUE, config |-> JObj(<<>>, <<>>),
                       path |-> "nomatch", message |-> <<>>]

\* The inner try/catch of the callback: the configuration, or the Error
\* thrown to the top-level catch.  path tells which parse produced it.
ConfigParser(source) ==
    LET direct == JSONparse(source)
    IN  IF direct.ok
        THEN [ok |-> TRUE, config |-> direct.val, path |-> "direct", message |-> <<>>]
        ELSE LET codeMatch == CodeMatch(source)
             IN  IF codeMatch.found
                 THEN LET withoutCode == ReplaceFirst(source, codeMatch.all, CodeReplacement)
                          second == JSONparse(withoutCode)
                      IN  IF second.ok /\ second.val.t \in {"object", "array"}
                          THEN [ok |-> TRUE,
                                config |-> SetCode(second.val, JStr(ActualCode(codeMatch.g2))),
                                path |-> "tolerant", message |-> <<>>]
                          ELSE [ok |-> FALSE, config |-> Undefined, path |-> "tolerant",
                                message |-> <<"Failed to parse JSON: ">> \o JsonSyntaxError]
                 ELSE [ok |-> FALSE, config |-> Undefined, path |-> "nomatch",
                       message |-> <<"Failed to parse JSON and couldn't find code section">>]

(* ------------------------------------------------------------------ *)
(* The URL of dataUrl and the file extension (async build)             *)
(* ------------------------------------------------------------------ *)
UpperCase == <<"A", "B", "C", "D", "E", "F", "G", "H", "I", "J", "K", "L", "M",
               "N", "O", "P", "Q", "R", "S", "T", "U", "V", "W", "X", "Y", "Z">>
LowerCase == <<"a", "b", "c", "d", "e", "f", "g", "h", "i", "j", "k", "l", "m",
               "n", "o", "p", "q", "r", "s", "t", "u", "v", "w", "x", "y", "z">>
Letters == {UpperCase[i] : i \in 1..Len(UpperCase)} \cup {LowerCase[i] : i \in 1..Len(LowerCase)}

ToLowerChar(c) ==
    IF \E i \in 1..Len(UpperCase) : UpperCase[i] = c
    THEN LowerCase[CHOOSE i \in 1..Len(UpperCase) : UpperCase[i] = c]
    ELSE c

\* String.prototype.toLowerCase
toLowerCase(s) == [i \in 1..Len(s) |-> ToLowerChar(s[i])]

\* The first position >= i of s holding a character of set cs; Len(s)+1 if none.
RECURSIVE FindFrom(_, _, _)
FindFrom(s, i, cs) ==
    IF i > Len(s) \/ s[i] \in cs THEN i ELSE FindFrom(s, i + 1, cs)

\* new URL(u).pathname for an absolute URL scheme://authority/path?query#frag;
\* ok = FALSE where new URL throws a TypeError (no scheme: a relative URL).
URLpathname(u) ==
    LET colon == FindFrom(u, 1, {":"})
    IN  IF \/ colon > Len(u)
           \/ colon = 1
           \/ \E k \in 1..(colon - 1) : u[k] \notin Letters
        THEN [ok |-> FALSE, pathname |-> <<>>]
        ELSE LET rest == SubSeq(u, colon + 1, Len(u))
                 auth == IF StartsWithAt(rest, 1, <<"/", "/">>)
                         THEN FindFrom(rest, 3, {"/", "?", "#"})
                         ELSE 1
                 stop == FindFrom(rest, auth, {"?", "#"})
                 path == SubSeq(rest, auth, stop - 1)
             IN  [ok |-> TRUE, pathname |-> IF path = <<>> THEN <<"/">> ELSE path]

\* pathname.split('.').pop(): what follows the last dot (all of it if no dot).
RECURSIVE LastSegment(_)
LastSegment(s) ==
    LET dot == FindFrom(s, 1, {"."})
    IN  IF dot > Len(s) THEN s ELSE LastSegment(SubSeq(s, dot + 1, Len(s)))

\* url.pathname.split('.').pop()?.toLowerCase()
ExtOf(pathname) == toLowerCase(LastSegment(pathname))

(* ------------------------------------------------------------------ *)
(* DataResolver: the parsers of a fetched body                         *)
(* ------------------------------------------------------------------ *)
TypeErrorNull == <<"<TypeError: cannot read properties of null>">>
TypeErrorURL  == <<"<TypeError: invalid URL>">>
FetchRejected == <<"<TypeError: fetch failed>">>
BodyRejected  == <<"<TypeError: body read failed>">>

\* d3.csvParse(text, d3.autoType) and d3.tsvParse(text, d3.autoType): the rows
\* d3 makes of the text, kept as the text and its delimiter.
DsvRows(delim, text) == JV("array", text, <<<<delim>>>>, <<>>)

\* The case 'json' / 'geojson' / 'topojson' and the auto-detected JSON body:
\* JSON.parse(text) and its classification.
JsonFamily(text) ==
    LET parsed == JSONparse(text)
        data == parsed.val
    IN  IF ~parsed.ok THEN [ok |-> FALSE, plotData |-> Undefined, message |-> JsonSyntaxError]
        ELSE IF ~CanGet(data)
             THEN [ok |-> FALSE, plotData |-> Undefined, message |-> TypeErrorNull]
        ELSE IF Truthy(Get(data, <<"o", "b", "j", "e", "c", "t", "s">>))
             THEN [ok |-> TRUE, plotData |-> data, message |-> <<>>]
        ELSE IF Get(data, <<"t", "y", "p", "e">>) \in
                   {JStr(<<"F", "e", "a", "t", "u", "r", "e", "C", "o", "l", "l",
                           "e", "c", "t", "i", "o", "n">>),
                    JStr(<<"F", "e", "a", "t", "u", "r", "e">>)}
             THEN [ok |-> TRUE, plotData |-> data, message |-> <<>>]
        ELSE IF data.t = "array"
             THEN [ok |-> TRUE, plotData |-> data, message |-> <<>>]
        ELSE [ok |-> TRUE, plotData |-> JArr(<<data>>), message |-> <<>>]

\* text.trim().startsWith(c)
TrimStartsWith(text, c) ==
    LET i == SkipRegexWs(text, 1) IN i <= Len(text) /\ text[i] = c

\* ParseBody with the content looked at first: a body that begins like JSON
\* is parsed as JSON whatever the extension says.
ParseBodyContentFirst(ext, text) ==
    IF TrimStartsWith(text, "{") \/ TrimStartsWith(text, "[")
    THEN JsonFamily(text)
    ELSE IF ext = <<"c", "s", "v">>
    THEN [ok |-> TRUE, plotData |-> DsvRows(",", text), message |-> <<>>]
    ELSE IF ext = <<"t", "s", "v">>
    THEN [ok |-> TRUE, plotData |-> DsvRows(TAB, text), message |-> <<>>]
    ELSE IF ext \in {<<"j", "s", "o", "n">>, <<"g", "e", "o", "j", "s", "o", "n">>,
                     <<"t", "o", "p", "o", "j", "s", "o", "n">>}
    THEN JsonFamily(text)
    ELSE IF \E i \in 1..Len(text) : text[i] = TAB
    THEN [ok |-> TRUE, plotData |-> DsvRows(TAB, text), message |-> <<>>]
    ELSE [ok |-> TRUE, plotData |-> DsvRows(",", text), message |-> <<>>]

\* The switch (ext) of the async build.
ParseBody(ext, text) ==
    IF ext = <<"c", "s", "v">>
    THEN [ok |-> TRUE, plotData |-> DsvRows(",", text), message |-> <<>>]
    ELSE IF ext = <<"t", "s", "v">>
    THEN [ok |-> TRUE, plotData |-> DsvRows(TAB, text), message |-> <<>>]
    ELSE IF ext \in {<<"j", "s", "o", "n">>, <<"g", "e", "o", "j", "s", "o", "n">>,
                     <<"t", "o", "p", "o", "j", "s", "o", "n">>}
    THEN JsonFamily(text)
    ELSE IF TrimStartsWith(text, "{") \/ TrimStartsWith(text, "[")
    THEN JsonFamily(text)
    ELSE IF \E i \in 1..Len(text) : text[i] = TAB
    THEN [ok |-> TRUE, plotData |-> DsvRows(TAB, text), message |-> <<>>]
    ELSE [ok |-> TRUE, plotData |-> DsvRows(",", text), message |-> <<>>]

\* The sync build: plotData = await response.json(), then the log line reads
\* plotData.length.
ResponseJson(text) ==
    LET parsed == JSONparse(text)
    IN  IF ~parsed.ok THEN [ok |-> FALSE, plotData |-> Undefined, message |-> JsonSyntaxError]
        ELSE IF ~CanGet(parsed.val)
             THEN [ok |-> FALSE, plotData |-> Undefined, message |-> TypeErrorNull]
        ELSE [ok |-> TRUE, plotData |-> parsed.val, message |-> <<>>]

(* ------------------------------------------------------------------ *)
(* The document: the output element, the plot container, their nodes   *)
(* ------------------------------------------------------------------ *)
\* The argument of a Plot.plot call: the value the user code returned, or
\* the default specification with its one dot mark.
NoArg == [kind |-> "none", val |-> Undefined, width |-> 0, height |-> 0,
          margin |-> 0, marks |-> <<>>]
UserArg(spec) == [NoArg EXCEPT !.kind = "user", !.val = spec]
\* DefaultArg without its mark layer.
DefaultArgNoMarks(plotData) ==
    [kind |-> "default", val |-> Undefined, width |-> 640, height |-> 400,
     margin |-> 40, marks |-> <<>>]

\* Plot.plot({width: 640, height: 400, margin: 40, marks: [Plot.dot(plotData)]})
DefaultArg(plotData) ==
    [kind |-> "default", val |-> Undefined, width |-> 640, height |-> 400,
     margin |-> 40, marks |-> <<[mark |-> "dot", data |-> plotData]>>]

TextNode(message) == [kind |-> "text", text |-> message, arg |-> NoArg]
DivNode           == [kind |-> "div", text |-> <<>>, arg |-> NoArg]
GraphicNode(arg)  == [kind |-> "graphic", text |-> <<>>, arg |-> arg]

(* ------------------------------------------------------------------ *)
(* One render pass                                                     *)
(* ------------------------------------------------------------------ *)
VARIABLES
    build,   \* which source file runs: "sync" (src/src/main.ts) or "async"
    pass     \* per render pass: the callback's locals, its output element,
             \* the promises it waits for, and a record of what it has done

vars == <<build, pass>>

Builds == {"sync", "async"}

NPasses == 2
Passes == 1..NPasses

NoUser == [state |-> "none", value |-> Undefined, message |-> <<>>]

\* The state of a pass when the host calls the callback with `source`.
\*   pc           where the callback stands (see Observable below)
\*   given        how the source text was put together (read by no step)
\*   config, plotData, ext, response, text
\*                the callback's locals (response: the status, 0 = none)
\*   el           the children of the output element el
\*   plotContainer the div made by el.createDiv, and its children
\*   user         the promise of the user code (async build)
\*   error        the error in flight or reported
\*   settled      the promise the callback returned has settled
\*   path, dataFrom, fetches, bodyReads, userCalls, plotCalls, plotArg,
\*   plot, cleared, caughtBy, failedAt
\*                what the pass has done so far: which parse made config,
\*                where plotData came from, the calls made, the argument and
\*                the result of Plot.plot, whether container.empty() ran,
\*                which catch reported the error of which stage
NewPass(g) ==
    [pc |-> "parse", source |-> g.pre \o g.payload \o g.post, given |-> g,
     config |-> Undefined, path |-> "none", plotData |-> Undefined,
     ext |-> <<>>, response |-> 0, text |-> <<>>, dataFrom |-> "none",
     fetches |-> 0, bodyReads |-> 0,
     el |-> <<>>, plotContainer |-> [created |-> FALSE, kids |-> <<>>],
     user |-> NoUser, error |-> <<>>, settled |-> FALSE,
     userCalls |-> 0, plotCalls |-> 0, plotArg |-> NoArg, plot |-> "none",
     cleared |-> FALSE,
     caughtBy |-> "none", failedAt |-> "none"]

NoSource == [kind |-> "plain", pre |-> <<>>, payload |-> <<>>, post |-> <<>>]
IdlePass == [NewPass(NoSource) EXCEPT !.pc = "idle"]

\* The callback returns normally: its promise is fulfilled.
Return(st) == [st EXCEPT !.pc = "done", !.settled = TRUE]

\* } catch (error) { this.logMessage(error.message, true);
\*                   el.setText('Error rendering plot: ' + error.message); }
\* setText replaces every child of el, the plot container included.
TopLevelCatch(st, message, stage) ==
    [st EXCEPT !.el = <<TextNode(<<"Error rendering plot: ">> \o message)>>,
               !.error = message, !.caughtBy = "top", !.failedAt = stage,
               !.pc = "done", !.settled = TRUE]

\* throw new Error(`Failed to fetch data from URL: ${error.message}`), caught
\* by the top-level catch.
FetchCatch(st, message, stage) ==
    TopLevelCatch(st, <<"Failed to fetch data from URL: ">> \o message, stage)

(* ---- configuration parsing --------------------------------------- *)
\* try { config = JSON.parse(source) } catch (e) { ...tolerant recovery... }
ParseStep(st) ==
    LET r == ConfigParser(st.source)
    IN  IF r.ok
        THEN [st EXCEPT !.config = r.config, !.path = r.path, !.pc = "resolve"]
        ELSE TopLevelCatch([st EXCEPT !.path = r.path], r.message, "parse")

(* ---- data resolution --------------------------------------------- *)
dataUrlKey == <<"d", "a", "t", "a", "U", "r", "l">>
dataKey    == <<"d", "a", "t", "a">>
codeKey    == <<"c", "o", "d", "e">>

\* ResolveStep with the two tests in the other order: inline data first.
ResolveStepDataFirst(st) ==
    IF ~CanGet(st.config) THEN TopLevelCatch(st, TypeErrorNull, "config")
    ELSE IF Truthy(Get(st.config, dataKey))
         THEN [st EXCEPT !.plotData = Get(st.config, dataKey),
                         !.dataFrom = "inline", !.pc = "plot"]
    ELSE IF Truthy(Get(st.config, dataUrlKey))
         THEN [st EXCEPT !.fetches = @ + 1, !.pc = "awaitFetch"]
    ELSE TopLevelCatch(st, <<"Either data or dataUrl must be provided">>, "config")

\* ResolveStep with the plot container made before the data is resolved.
ResolveStepContainerFirst(st) ==
    LET made == [st EXCEPT !.el = Append(@, DivNode),
                           !.plotContainer = [created |-> TRUE, kids |-> <<>>]]
    IN  IF ~CanGet(st.config) THEN TopLevelCatch(made, TypeErrorNull, "config")
        ELSE IF Truthy(Get(st.config, dataUrlKey))
             THEN [made EXCEPT !.fetches = @ + 1, !.pc = "awaitFetch"]
        ELSE IF Truthy(Get(st.config, dataKey))
             THEN [made EXCEPT !.plotData = Get(st.config, dataKey),
                               !.dataFrom = "inline", !.pc = "plot"]
        ELSE TopLevelCatch(made, <<"Either data or dataUrl must be provided">>, "config")

\* if (config.dataUrl) { ... await fetch(config.dataUrl) ...
\* } else if (config.data) { plotData = config.data } else { throw ... }
ResolveStep(st) ==
    IF ~CanGet(st.config) THEN TopLevelCatch(st, TypeErrorNull, "config")
    ELSE IF Truthy(Get(st.config, dataUrlKey))
         THEN [st EXCEPT !.fetches = @ + 1, !.pc = "awaitFetch"]
    ELSE IF Truthy(Get(st.config, dataKey))
         THEN [st EXCEPT !.plotData = Get(st.config, dataKey),
                         !.dataFrom = "inline", !.pc = "plot"]
    ELSE TopLevelCatch(st, <<"Either data or dataUrl must be provided">>, "config")

\* response.ok taken for "not a server error".
ResponseOkBelow500(status) == status >= 200 /\ status <= 499

\* response.ok
ResponseOk(status) == status >= 200 /\ status <= 299

\* The characters of config.dataUrl (a value that is no string is no URL).
UrlText(v) == IF v.t = "string" THEN v.s ELSE <<>>

\* FetchStep with one retry: a rejected fetch is issued a second time.
FetchStepRetryOnce(st, b, rejected, status) ==
    IF rejected /\ st.fetches < 2 THEN [st EXCEPT !.fetches = @ + 1]
    ELSE IF rejected THEN FetchCatch(st, FetchRejected, "fetch")
    ELSE IF ~ResponseOk(status)
         THEN FetchCatch([st EXCEPT !.response = status],
                         <<"HTTP error! status: ", ToString(status)>>, "fetch")
    ELSE IF b = "sync"
         THEN [st EXCEPT !.response = status, !.bodyReads = @ + 1, !.pc = "awaitBody"]
    ELSE LET url == URLpathname(UrlText(Get(st.config, dataUrlKey)))
         IN  IF ~url.ok
             THEN FetchCatch([st EXCEPT !.response = status], TypeErrorURL, "fetch")
             ELSE [st EXCEPT !.response = status, !.ext = ExtOf(url.pathname),
                             !.bodyReads = @ + 1, !.pc = "awaitBody"]

\* The fetch settles: rejected, or a response with a status.  The async build
\* goes on to new URL(config.dataUrl) and the extension before it reads the body.
FetchStep(st, b, rejected, status) ==
    IF rejected THEN FetchCatch(st, FetchRejected, "fetch")
    ELSE IF ~ResponseOk(status)
         THEN FetchCatch([st EXCEPT !.response = status],
                         <<"HTTP error! status: ", ToString(status)>>, "fetch")
    ELSE IF b = "sync"
         THEN [st EXCEPT !.response = status, !.bodyReads = @ + 1, !.pc = "awaitBody"]
    ELSE LET url == URLpathname(UrlText(Get(st.config, dataUrlKey)))
         IN  IF ~url.ok
             THEN FetchCatch([st EXCEPT !.response = status], TypeErrorURL, "fetch")
             ELSE [st EXCEPT !.response = status, !.ext = ExtOf(url.pathname),
                             !.bodyReads = @ + 1, !.pc = "awaitBody"]

\* The body read settles: rejected, or the text.  plotData is response.json()
\* in the sync build and the switch (ext) of the async build.
BodyStep(st, b, rejected, text) ==
    IF rejected THEN FetchCatch(st, BodyRejected, "fetch")
    ELSE LET r == IF b = "sync" THEN ResponseJson(text) ELSE ParseBody(st.ext, text)
             read == [st EXCEPT !.text = text]
         IN  IF r.ok
             THEN [read EXCEPT !.plotData = r.plotData, !.dataFrom = "fetch",
                               !.pc = "plot"]
             ELSE FetchCatch(read, r.message, "format")

(* ---- the sandbox and the renderer -------------------------------- *)
\* What the environment decides in a step: whether new Function accepts the
\* wrapper's text (outer) and the user function's text (inner), what the user
\* code does when called (user) and the value it returns (value), and what
\* Plot.plot does with the specification it is given (lib).
Compile == {"ok", "SyntaxError"}
UserDoes == {"returns", "throws", "suspends"}
Lib == {"graphic", "throws", "null"}

\* Values a user code returns: undefined (no return), null, false, 0, "",
\* {marks: []} and 1.
MarksSpec == JObj(<<<<"m", "a", "r", "k", "s">>>>, <<JArr(<<>>)>>)
UserReturns == {Undefined, JNull, JFalse, JNum(<<"0">>), JStr(<<>>),
                MarksSpec, JNum(<<"1">>)}

Envs == [outer : Compile, inner : Compile, user : UserDoes,
         value : UserReturns, lib : Lib]

CompileError == <<"<SyntaxError of new Function>">>
UserError    == <<"<error thrown by the user code>">>
PlotError    == <<"<error thrown by Plot.plot>">>

Failed(st, message, stage) ==
    [ok |-> FALSE, st |-> st, message |-> message, stage |-> stage]

\* ClearAndAttach with the attach left to a later turn: the container is
\* emptied and the graphic is not yet in it.
ClearThenSuspend(st, plot) ==
    [st EXCEPT !.plotContainer.kids = <<>>, !.cleared = TRUE]

\* container.empty(); container.appendChild(plot);
ClearAndAttach(st, plot) ==
    [st EXCEPT !.plotContainer.kids = <<plot>>, !.cleared = TRUE]

\* const plot = Plot.plot(arg); if (!plot) throw ...; then clear and attach.
PlotAndAttach(st, arg, lib) ==
    LET called == [st EXCEPT !.plotCalls = @ + 1, !.plotArg = arg, !.plot = lib]
    IN  IF lib = "throws" THEN Failed(called, PlotError, "render")
        ELSE IF lib = "null"
             THEN Failed(called, <<"Plot.plot() returned null">>, "render")
        ELSE [ok |-> TRUE, st |-> ClearAndAttach(called, GraphicNode(arg)),
              message |-> <<>>, stage |-> "none"]

\* RenderSpec with the test `spec == null` in place of `!spec`.
RenderSpecNullTest(st, spec, lib) ==
    IF spec \in {JNull, Undefined}
    THEN Failed(st, <<"No plot specification returned">>, "execute")
    ELSE PlotAndAttach(st, UserArg(spec), lib)

\* if (!spec) throw new Error('No plot specification returned');
\* const plot = Plot.plot(spec); ...
RenderSpec(st, spec, lib) ==
    IF ~Truthy(spec)
    THEN Failed(st, <<"No plot specification returned">>, "execute")
    ELSE PlotAndAttach(st, UserArg(spec), lib)

\* const plotContainer = el.createDiv({cls: 'observable-plot-container'});
CreateDiv(st) ==
    [st EXCEPT !.el = Append(@, DivNode),
               !.plotContainer = [created |-> TRUE, kids |-> <<>>]]

\* The user function is called: its promise (async build) or its outcome.
CallUser(st, env) ==
    [st EXCEPT !.userCalls = @ + 1,
               !.user = CASE env.user = "throws" ->
                               [state |-> "rejected", value |-> Undefined,
                                message |-> UserError]
                          [] env.user = "returns" ->
                               [state |-> "fulfilled", value |-> env.value,
                                message |-> <<>>]
                          [] OTHER ->
                               [state |-> "pending", value |-> Undefined,
                                message |-> <<>>]]

\* sync build, if (config.code): plotFunction(Plot, d3, plotData, plotContainer),
\* all of it inside the callback's try.
SandboxSync(st, env) ==
    IF env.outer = "SyntaxError" \/ env.inner = "SyntaxError"
    THEN TopLevelCatch(st, CompileError, "compile")
    ELSE LET ran == CallUser(st, env)
         IN  IF env.user = "throws" THEN TopLevelCatch(ran, UserError, "execute")
             ELSE LET r == RenderSpec(ran, env.value, env.lib)
                  IN  IF r.ok THEN Return(r.st)
                      ELSE TopLevelCatch(r.st, r.message, r.stage)

\* The promise plotFunction returned is rejected: its .catch handler will run.
Reject(st, message, stage) ==
    [st EXCEPT !.error = message, !.failedAt = stage, !.pc = "catchPending"]

\* async build, if (config.code): plotFunction(...).catch(...).  The wrapper is
\* compiled in the callback's try; the async function it returns compiles the
\* user function, calls it and stops at `await userFunction(...)`.  The
\* callback attaches .catch and returns without awaiting.
SandboxAsync(st, env) ==
    IF env.outer = "SyntaxError" THEN TopLevelCatch(st, CompileError, "compile")
    ELSE IF env.inner = "SyntaxError"
         THEN [Reject(st, CompileError, "compile") EXCEPT !.settled = TRUE]
    ELSE [CallUser(st, env) EXCEPT !.pc = "awaitUser", !.settled = TRUE]

\* else: Plot.plot({width: 640, height: 400, margin: 40,
\*                  marks: [Plot.dot(plotData)]}), then clear and attach.
DefaultPlot(st, lib) ==
    LET r == PlotAndAttach(st, DefaultArg(st.plotData), lib)
    IN  IF r.ok THEN Return(r.st) ELSE TopLevelCatch(r.st, r.message, r.stage)

\* CreatePlotStep with the test `'code' in config` in place of `config.code`.
CreatePlotStepCodePresent(st, b, env) ==
    LET made == CreateDiv(st)
    IN  IF Has(made.config, codeKey)
        THEN IF b = "sync" THEN SandboxSync(made, env) ELSE SandboxAsync(made, env)
        ELSE DefaultPlot(made, env.lib)

\* From the creation of the plot container to the end of the callback.
CreatePlotStep(st, b, env) ==
    LET made == CreateDiv(st)
    IN  IF Truthy(Get(made.config, codeKey))
        THEN IF b = "sync" THEN SandboxSync(made, env) ELSE SandboxAsync(made, env)
        ELSE DefaultPlot(made, env.lib)

\* async build: the user code, suspended, finishes: its promise is fulfilled
\* with a value or rejected.
UserSettleStep(st, rejected, value) ==
    IF rejected
    THEN [st EXCEPT !.user = [state |-> "rejected", value |-> Undefined,
                              message |-> UserError]]
    ELSE [st EXCEPT !.user = [state |-> "fulfilled", value |-> value,
                              message |-> <<>>]]

\* async build: the wrapper resumes after `await userFunction(...)`.
ResumeStep(st, lib) ==
    IF st.user.state = "rejected" THEN Reject(st, st.user.message, "execute")
    ELSE LET r == RenderSpec(st, st.user.value, lib)
         IN  IF r.ok THEN [r.st EXCEPT !.pc = "done"]
             ELSE Reject(r.st, r.message, r.stage)

\* PromiseCatch that only logs: console.error and no setText.
PromiseCatchLogOnly(st) ==
    [st EXCEPT !.caughtBy = "promise", !.pc = "done"]

\* .catch(error => { console.error(...);
\*     plotContainer.setText('Error generating plot: ' + error.message); })
PromiseCatch(st) ==
    [st EXCEPT !.plotContainer.kids =
                   <<TextNode(<<"Error generating plot: ">> \o st.error)>>,
               !.caughtBy = "promise", !.pc = "done"]

(* ------------------------------------------------------------------ *)
(* Inputs: source texts, responses, bodies                             *)
(* ------------------------------------------------------------------ *)
Quoted(cs) == <<"\"">> \o cs \o <<"\"">>
Member(key, valueText) == Quoted(key) \o <<":">> \o valueText

UrlJson     == <<"h", "t", "t", "p", ":", "/", "/", "x", "/", "d", ".", "j", "s", "o", "n">>
UrlCsv      == <<"h", "t", "t", "p", ":", "/", "/", "x", "/", "d", ".", "c", "s", "v">>
UrlNoExt    == <<"h", "t", "t", "p", ":", "/", "/", "x", "/", "d">>
UrlTsvUpper == <<"h", "t", "t", "p", ":", "/", "/", "x", "/", "d", ".", "T", "S", "V">>
UrlRelative == <<"d", ".", "j", "s", "o", "n">>

InlineData == Member(dataKey, <<"[", "1", "]">>)

\* The members of a configuration other than code:
\* none; data; dataUrl (five URLs); dataUrl and data; an empty dataUrl and data.
Heads ==
    {<<>>,
     InlineData,
     Member(dataUrlKey, Quoted(UrlJson)),
     Member(dataUrlKey, Quoted(UrlCsv)),
     Member(dataUrlKey, Quoted(UrlNoExt)),
     Member(dataUrlKey, Quoted(UrlTsvUpper)),
     Member(dataUrlKey, Quoted(UrlRelative)),
     Member(dataUrlKey, Quoted(UrlJson)) \o <<",">> \o InlineData,
     Member(dataUrlKey, Quoted(<<>>)) \o <<",">> \o InlineData}

\* {head} without a code member.
PlainSource(text) == [kind |-> "plain", pre |-> text, payload |-> <<>>, post |-> <<>>]
\* {head,"code":"payload"}: the payload is written as it stands, unescaped.
CodeSource(head, payload) ==
    [kind |-> "code",
     pre |-> <<"{">> \o head \o (IF head = <<>> THEN <<>> ELSE <<",">>)
                \o CodeKey \o <<":", "\"">>,
     payload |-> payload,
     post |-> <<"\"", "}">>]

\* Code payloads of the render passes: empty, one line, a raw line break.
PassPayloads == {<<>>, <<"a">>, <<"a", "\n">>}

\* Source texts that are no object, one that is no JSON and has no code
\* section, and one that is no JSON outside its code section.
OddSources ==
    {<<"n", "u", "l", "l">>, <<"[", "1", "]">>, <<"1">>, <<"n", "u", "l">>,
     <<"{", "x", ",">> \o Member(codeKey, Quoted(<<"a">>)) \o <<"}">>}

\* Configurations whose code is no string: a number, null.
OddCodes ==
    {<<"{">> \o InlineData \o <<",">> \o Member(codeKey, <<"1">>) \o <<"}">>,
     <<"{">> \o InlineData \o <<",">> \o Member(codeKey, <<"n", "u", "l", "l">>) \o <<"}">>}

PassInputs ==
    {PlainSource(<<"{">> \o h \o <<"}">>) : h \in Heads}
    \cup {CodeSource(h, c) : h \in Heads, c \in PassPayloads}
    \cup {PlainSource(s) : s \in OddSources \cup OddCodes}

\* response.status
Statuses == {200, 404, 500}

objectsKey == <<"o", "b", "j", "e", "c", "t", "s">>
typeKey    == <<"t", "y", "p", "e">>
FeatureText == <<"F", "e", "a", "t", "u", "r", "e">>
FeatureCollectionText == FeatureText \o <<"C", "o", "l", "l", "e", "c", "t", "i", "o", "n">>

\* Response bodies: JSON of every type, with and without the members the
\* classification reads, a text that is no JSON, a CSV and a TSV text.
Bodies ==
    {<<"[", "1", "]">>,
     <<"{">> \o Member(<<"a">>, <<"1">>) \o <<"}">>,
     <<"{">> \o Member(objectsKey, <<"{", "}">>) \o <<"}">>,
     <<"{">> \o Member(objectsKey, <<"0">>) \o <<"}">>,
     <<"{">> \o Member(typeKey, Quoted(FeatureCollectionText)) \o <<"}">>,
     <<"{">> \o Member(typeKey, Quoted(FeatureText)) \o <<"}">>,
     <<"{">> \o Member(typeKey, Quoted(<<"x">>)) \o <<"}">>,
     Quoted(<<"a">>),
     <<"1">>,
     <<"t", "r", "u", "e">>,
     <<"n", "u", "l", "l">>,
     <<"{">>,
     <<"a", ",", "b", "\n", "1", ",", "2">>,
     <<"a", "\t", "b", "\n", "1", "\t", "2">>}

(* ------------------------------------------------------------------ *)
(* The state machine                                                   *)
(* ------------------------------------------------------------------ *)
\* The host calls the callback for one code block (pass 1).
Init ==
    /\ build \in Builds
    /\ \E g \in PassInputs :
           pass = [p \in Passes |-> IF p = 1 THEN NewPass(g) ELSE IdlePass]

Parse(p) ==
    /\ pass[p].pc = "parse"
    /\ pass' = [pass EXCEPT ![p] = ParseStep(@)]
    /\ UNCHANGED build

Resolve(p) ==
    /\ pass[p].pc = "resolve"
    /\ pass' = [pass EXCEPT ![p] = ResolveStep(@)]
    /\ UNCHANGED build

FetchSettles(p) ==
    /\ pass[p].pc = "awaitFetch"
    /\ \E rejected \in BOOLEAN, status \in Statuses :
           pass' = [pass EXCEPT ![p] = FetchStep(@, build, rejected, status)]
    /\ UNCHANGED build

BodySettles(p) ==
    /\ pass[p].pc = "awaitBody"
    /\ \E rejected \in BOOLEAN, text \in Bodies :
           pass' = [pass EXCEPT ![p] = BodyStep(@, build, rejected, text)]
    /\ UNCHANGED build

CreatePlot(p) ==
    /\ pass[p].pc = "plot"
    /\ \E env \in Envs :
           /\ build = "sync" => env.user # "suspends"
           /\ pass' = [pass EXCEPT ![p] = CreatePlotStep(@, build, env)]
    /\ UNCHANGED build

UserSettles(p) ==
    /\ pass[p].pc = "awaitUser"
    /\ pass[p].user.state = "pending"
    /\ \E rejected \in BOOLEAN, value \in UserReturns :
           pass' = [pass EXCEPT ![p] = UserSettleStep(@, rejected, value)]
    /\ UNCHANGED build

Resume(p) ==
    /\ pass[p].pc = "awaitUser"
    /\ pass[p].user.state \in {"fulfilled", "rejected"}
    /\ \E lib \in Lib : pass' = [pass EXCEPT ![p] = ResumeStep(@, lib)]
    /\ UNCHANGED build

\* Catch with one plot container for the whole plugin: the handler writes the
\* error text into the container of every pass that has made one.
CatchSharedContainer(p) ==
    /\ pass[p].pc = "catchPending"
    /\ pass' = [q \in Passes |->
                   IF q = p THEN PromiseCatch(pass[p])
                   ELSE IF pass[q].plotContainer.created
                        THEN [pass[q] EXCEPT !.plotContainer.kids =
                                 <<TextNode(<<"Error generating plot: ">> \o pass[p].error)>>]
                        ELSE pass[q]]
    /\ UNCHANGED build

Catch(p) ==
    /\ pass[p].pc = "catchPending"
    /\ pass' = [pass EXCEPT ![p] = PromiseCatch(@)]
    /\ UNCHANGED build

Next ==
    \E p \in Passes :
        \/ Parse(p)
        \/ Resolve(p)
        \/ FetchSettles(p)
        \/ BodySettles(p)
        \/ CreatePlot(p)
        \/ UserSettles(p)
        \/ Resume(p)
        \/ Catch(p)

Spec == Init /\ [][Next]_vars

(* ------------------------------------------------------------------ *)
(* ConfigParser on its own: every payload up to MaxLen characters      *)
(* ------------------------------------------------------------------ *)
MaxLen == 3

\* The characters of a payload: letters (n too, for backslash-n), a line
\* break, a double quote, the delimiters , } ], a space and a backslash.
PayloadChars == {"a", "n", "\n", "\"", ",", "}", "]", " ", "\\"}

RECURSIVE TextsUpTo(_, _)
TextsUpTo(n, cs) ==
    IF n = 0 THEN {<<>>}
    ELSE LET shorter == TextsUpTo(n - 1, cs)
         IN  shorter \cup {Append(s, c) : s \in shorter, c \in cs}

\* Where the code member stands: alone, after data, before data, and with
\* whitespace around the colon and before the closing brace.
CodeTemplates ==
    {[pre  |-> <<"{">> \o CodeKey \o <<":", "\"">>,
      post |-> <<"\"", "}">>],
     [pre  |-> <<"{">> \o InlineData \o <<",">> \o CodeKey \o <<":", "\"">>,
      post |-> <<"\"", "}">>],
     [pre  |-> <<"{">> \o CodeKey \o <<":", "\"">>,
      post |-> <<"\"", ",">> \o InlineData \o <<"}">>],
     [pre  |-> <<"{">> \o CodeKey \o <<" ", ":", " ", "\"">>,
      post |-> <<"\"", " ", "}">>]}

ParseInputs ==
    {[kind |-> "code", pre |-> t.pre, payload |-> c, post |-> t.post] :
        t \in CodeTemplates, c \in TextsUpTo(MaxLen, PayloadChars)}

InitParse ==
    /\ build \in Builds
    /\ \E g \in ParseInputs :
           pass = [p \in Passes |-> IF p = 1 THEN NewPass(g) ELSE IdlePass]

NextParse == \E p \in Passes : Parse(p)

SpecParse == InitParse /\ [][NextParse]_vars

(* ------------------------------------------------------------------ *)
(* Several code blocks rendered at once                                *)
(* ------------------------------------------------------------------ *)
\* The code blocks of a note rendered together: one with inline data and user
\* code, one that fetches its data and has no code.
RenderInputs ==
    <<CodeSource(InlineData, <<"a">>),
      PlainSource(<<"{">> \o Member(dataUrlKey, Quoted(UrlJson)) \o <<"}">>)>>

\* The block that pass p renders: the blocks of the note in turn.
BlockOf(p) == ((p - 1) % Len(RenderInputs)) + 1
RenderInput(p) == RenderInputs[BlockOf(p)]

\* The host calls the callback once for every code block; the calls run
\* interleaved at their awaits.
InitRenders ==
    /\ build \in Builds
    /\ pass = [p \in Passes |-> NewPass(RenderInput(p))]

SpecRenders == InitRenders /\ [][Next]_vars

\* The records one step of the callback can make of the record of a pass:
\* what the actions above do to pass[p], as a function of pass[p] alone.
PassSteps(b, st) ==
    CASE st.pc = "parse" -> {ParseStep(st)}
      [] st.pc = "resolve" -> {ResolveStep(st)}
      [] st.pc = "awaitFetch" ->
            {FetchStep(st, b, rejected, status) :
                rejected \in BOOLEAN, status \in Statuses}
      [] st.pc = "awaitBody" ->
            {BodyStep(st, b, rejected, text) : rejected \in BOOLEAN, text \in Bodies}
      [] st.pc = "plot" ->
            {CreatePlotStep(st, b, env) :
                env \in {e \in Envs : b = "sync" => e.user # "suspends"}}
      [] st.pc = "awaitUser" /\ st.user.state = "pending" ->
            {UserSettleStep(st, rejected, value) :
                rejected \in BOOLEAN, value \in UserReturns}
      [] st.pc = "awaitUser" /\ st.user.state # "pending" ->
            {ResumeStep(st, lib) : lib \in Lib}
      [] st.pc = "catchPending" -> {PromiseCatch(st)}
      [] OTHER -> {}

\* The document observes a pass only where the callback, or the wrapper of the
\* user code, is suspended or has finished: the steps parse, resolve and plot
\* follow one another with no suspension point between them.
Observable(st) == st.pc \notin {"idle", "parse", "resolve", "plot"}

(* ------------------------------------------------------------------ *)
(* Properties                                                          *)
(* ------------------------------------------------------------------ *)
Started(st) == st.pc # "idle"
Parsed(st)  == st.pc \notin {"idle", "parse"}
ParsedOk(st) == Parsed(st) /\ st.failedAt # "parse"

\* The JSON escaping of a raw payload: what the author would have to write
\* for the direct parse to yield the payload.
RECURSIVE JsonEscape(_)
JsonEscape(s) ==
    IF s = <<>> THEN <<>>
    ELSE (CASE s[1] = "\"" -> <<"\\", "\"">>
            [] s[1] = "\\" -> <<"\\", "\\">>
            [] s[1] = "\n" -> <<"\\", "n">>
            [] OTHER -> <<s[1]>>) \o JsonEscape(Tail(s))

\* The source fails the direct parse only because its code value holds the
\* payload raw: with the payload escaped it is valid JSON whose code is the
\* payload.  The payload is over letters, line break, quote, comma, } ] and
\* space (no backslash).
RawCodeSource(st) ==
    /\ st.given.kind = "code"
    /\ \A i \in 1..Len(st.given.payload) : st.given.payload[i] # "\\"
    /\ ~JSONparse(st.source).ok
    /\ LET escaped == JSONparse(st.given.pre \o JsonEscape(st.given.payload)
                                    \o st.given.post)
       IN  escaped.ok /\ Get(escaped.val, codeKey) = JStr(st.given.payload)

\* C1 (as claimed): for every source whose only defect is a raw code payload,
\* the tolerant path yields a configuration whose code is the whole payload.
C1_TolerantRoundTrip ==
    \A p \in Passes :
        (Parsed(pass[p]) /\ RawCodeSource(pass[p])) =>
            /\ pass[p].failedAt = "none"
            /\ pass[p].path = "tolerant"
            /\ Get(pass[p].config, codeKey) = JStr(pass[p].given.payload)

\* C2: for every source that is valid JSON the configuration is the direct
\* parse of the source, made by the direct path; the recovery is not entered
\* and alters no member.
C2_DirectParity ==
    \A p \in Passes :
        (Parsed(pass[p]) /\ JSONparse(pass[p].source).ok) =>
            /\ pass[p].path = "direct"
            /\ pass[p].failedAt = "none"
            /\ pass[p].config = JSONparse(pass[p].source).val

\* C2 witness: a valid source with an escaped code value that the regex
\* would match, parsed by the direct path, its escapes decoded by JSON.parse.
C2_Witness ==
    \E p \in Passes :
        /\ pass[p].pc = "resolve"
        /\ pass[p].path = "direct"
        /\ CodeMatch(pass[p].source).found
        /\ \E i \in 1..Len(pass[p].given.payload) : pass[p].given.payload[i] = "\\"
        /\ Get(pass[p].config, codeKey) # JStr(pass[p].given.payload)
        /\ Get(pass[p].config, codeKey) # JStr(ActualCode(pass[p].given.payload))

\* The text node the top-level catch writes for the error of the pass.
RenderErrorText(st) == <<TextNode(<<"Error rendering plot: ">> \o st.error)>>
GenerateErrorText(st) == <<TextNode(<<"Error generating plot: ">> \o st.error)>>

\* A graphic is in the output element: in el itself, or in the plot
\* container while el holds the container.
HoldsGraphic(st) ==
    \/ \E i \in 1..Len(st.el) : st.el[i].kind = "graphic"
    \/ /\ \E i \in 1..Len(st.el) : st.el[i].kind = "div"
       /\ \E i \in 1..Len(st.plotContainer.kids) :
              st.plotContainer.kids[i].kind = "graphic"

\* C3 (as claimed): a parsed configuration of any JSON type with neither a
\* data nor a dataUrl member fails with 'Either data or dataUrl must be
\* provided'; no fetch, no plot container, no sandbox.
C3_NeitherDataNorUrl ==
    \A p \in Passes :
        (/\ ParsedOk(pass[p])
         /\ pass[p].pc # "resolve"
         /\ ~Has(pass[p].config, dataKey)
         /\ ~Has(pass[p].config, dataUrlKey)) =>
            /\ pass[p].pc = "done"
            /\ pass[p].failedAt = "config"
            /\ pass[p].error = <<"Either data or dataUrl must be provided">>
            /\ pass[p].el = RenderErrorText(pass[p])
            /\ pass[p].fetches = 0
            /\ ~pass[p].plotContainer.created
            /\ pass[p].userCalls = 0

\* C4 (as claimed): after a failure at any stage the output element holds
\* exactly the text 'Error rendering plot: ' + message, written by the
\* top-level catch, and no graphic.
C4_TopLevelCatchReports ==
    \A p \in Passes :
        (pass[p].pc = "done" /\ pass[p].failedAt # "none") =>
            /\ pass[p].caughtBy = "top"
            /\ pass[p].el = RenderErrorText(pass[p])
            /\ ~HoldsGraphic(pass[p])

\* The outcome of the user code is in the document: the graphic is attached,
\* or a catch has reported the error.
OutcomeWritten(st) ==
    \/ \E i \in 1..Len(st.plotContainer.kids) : st.plotContainer.kids[i].kind = "graphic"
    \/ st.caughtBy # "none"

\* C5 (as claimed): once the user code has been called, the promise of the
\* callback does not settle before the user code has finished and its outcome
\* is written; a rejection of the user code is reported as a failure of the
\* execution.
C5_CallbackAwaitsUserCode ==
    \A p \in Passes :
        /\ (pass[p].settled /\ pass[p].userCalls > 0) =>
               (pass[p].user.state # "pending" /\ OutcomeWritten(pass[p]))
        /\ (pass[p].pc = "done" /\ pass[p].user.state = "rejected") =>
               (pass[p].caughtBy # "none" /\ pass[p].failedAt = "execute")

\* C6: container.empty() runs only after Plot.plot has returned a graphic;
\* wherever the document can observe the pass, an emptied container holds
\* the graphic (or an error text); a pass that has failed has not emptied
\* the container, which holds what it held when created or the error text
\* alone, and then el holds the container or the error text alone.
C6_ClearThenAttachAtomic ==
    \A p \in Passes :
        /\ pass[p].cleared => pass[p].plot = "graphic"
        /\ (Observable(pass[p]) /\ pass[p].cleared) =>
               \/ pass[p].plotContainer.kids = <<GraphicNode(pass[p].plotArg)>>
               \/ pass[p].plotContainer.kids = GenerateErrorText(pass[p])
        /\ (pass[p].pc = "done" /\ pass[p].failedAt # "none") =>
               /\ ~pass[p].cleared
               /\ \/ /\ pass[p].plotContainer.kids = <<>>
                     /\ pass[p].el = RenderErrorText(pass[p])
                  \/ /\ pass[p].plotContainer.kids = GenerateErrorText(pass[p])
                     /\ pass[p].el = <<DivNode>>

\* C6 witness: the user code was suspended, then the wrapper resumed, emptied
\* the container and attached the graphic.
C6_Witness ==
    \E p \in Passes :
        /\ build = "async"
        /\ pass[p].pc = "done"
        /\ pass[p].userCalls = 1
        /\ pass[p].cleared
        /\ pass[p].plotContainer.kids = <<GraphicNode(UserArg(MarksSpec))>>
        /\ pass[p].el = <<DivNode>>

\* C7: a response whose status is outside 200..299 ends the pass with an
\* error whose message holds the status; the body is never read or parsed,
\* no sandbox, no Plot.plot, no container, and el holds the error text alone.
C7_HttpErrorFails ==
    \A p \in Passes :
        (pass[p].response # 0 /\ pass[p].response \notin 200..299) =>
            /\ pass[p].pc = "done"
            /\ pass[p].failedAt = "fetch"
            /\ \E i \in 1..Len(pass[p].error) :
                   pass[p].error[i] = ToString(pass[p].response)
            /\ pass[p].bodyReads = 0
            /\ pass[p].text = <<>>
            /\ pass[p].plotData = Undefined
            /\ pass[p].userCalls = 0
            /\ pass[p].plotCalls = 0
            /\ ~pass[p].plotContainer.created
            /\ pass[p].el = RenderErrorText(pass[p])
            /\ ~HoldsGraphic(pass[p])

\* C7 witness: the fetch of dataUrl was answered 404 and the pass has ended.
C7_Witness ==
    \E p \in Passes :
        /\ pass[p].fetches = 1
        /\ pass[p].response = 404
        /\ pass[p].pc = "done"
        /\ pass[p].error = <<"Failed to fetch data from URL: ",
                             "HTTP error! status: ", "404">>

\* What C8 says of a pass that is past data resolution.
FetchedNeverInline(st) ==
    /\ st.fetches = 1
    /\ st.dataFrom # "inline"
    /\ st.failedAt \in {"fetch", "format"} =>
           /\ st.pc = "done"
           /\ st.plotData = Undefined
           /\ ~st.plotContainer.created
           /\ st.userCalls = 0
           /\ st.plotCalls = 0

SpecTested(st) ==
    /\ st.userCalls > 0
    /\ st.user.state = "fulfilled"
    /\ st.pc \in {"catchPending", "done"}

NoSpecReturned == <<"No plot specification returned">>

\* C9 (as claimed): 'No plot specification returned' exactly when the user
\* code returned null or undefined; every other value goes to Plot.plot
\* as it is.
C9_NullOrUndefinedOnly ==
    \A p \in Passes :
        SpecTested(pass[p]) =>
            /\ (pass[p].error = NoSpecReturned) <=>
                   (pass[p].user.value \in {JNull, Undefined})
            /\ pass[p].user.value \notin {JNull, Undefined} =>
                   (pass[p].plotCalls = 1 /\ pass[p].plotArg = UserArg(pass[p].user.value))

\* C9 (amended): 'No plot specification returned' exactly when the user code
\* returned a falsy value (null, undefined, false, 0, the empty string);
\* every truthy value goes to Plot.plot as it is, and a falsy one never does.
C9_FalsyRejected ==
    \A p \in Passes :
        SpecTested(pass[p]) =>
            /\ (pass[p].error = NoSpecReturned) <=> ~Truthy(pass[p].user.value)
            /\ Truthy(pass[p].user.value) =>
                   (pass[p].plotCalls = 1 /\ pass[p].plotArg = UserArg(pass[p].user.value))
            /\ ~Truthy(pass[p].user.value) =>
                   (pass[p].plotCalls = 0 /\ pass[p].failedAt = "execute")

\* C9 witness: the user code returned {marks: []}, Plot.plot was given that
\* value and its graphic is attached.
C9_Witness ==
    \E p \in Passes :
        /\ pass[p].pc = "done"
        /\ pass[p].user.value = MarksSpec
        /\ pass[p].plotArg = UserArg(MarksSpec)
        /\ pass[p].plotContainer.kids = <<GraphicNode(UserArg(MarksSpec))>>

JsonExts == {<<"j", "s", "o", "n">>, <<"g", "e", "o", "j", "s", "o", "n">>,
             <<"t", "o", "p", "o", "j", "s", "o", "n">>}

\* The async build has read a body that is valid JSON and takes it for
\* JSON-family: by the extension, or by its first character.
JsonFamilyBodyRead(st) ==
    /\ build = "async"
    /\ st.text # <<>>
    /\ JSONparse(st.text).ok
    /\ \/ st.ext \in JsonExts
       \/ /\ st.ext \notin {<<"c", "s", "v">>, <<"t", "s", "v">>}
          /\ TrimStartsWith(st.text, "{") \/ TrimStartsWith(st.text, "[")

\* C10 (as claimed): the dataset is the parsed value unchanged when it has an
\* objects member, or its type is FeatureCollection or Feature, or it is an
\* array; in every other case (object, string, number, boolean, null) it is
\* the one-element sequence of that value.
C10_Classification ==
    \A p \in Passes :
        JsonFamilyBodyRead(pass[p]) =>
            LET data == JSONparse(pass[p].text).val
            IN  /\ pass[p].failedAt # "format"
                /\ pass[p].plotData =
                       IF \/ Has(data, objectsKey)
                          \/ Get(data, typeKey) \in {JStr(FeatureCollectionText),
                                                     JStr(FeatureText)}
                          \/ data.t = "array"
                       THEN data
                       ELSE JArr(<<data>>)

\* The path of the URL ends in a dot and the suffix, in any letter case.
PathEndsIn(path, suffix) ==
    /\ Len(path) > Len(suffix)
    /\ path[Len(path) - Len(suffix)] = "."
    /\ toLowerCase(SubSeq(path, Len(path) - Len(suffix) + 1, Len(path))) = suffix

\* The parser C11 names for a URL path and a body.
ParserByPrecedence(path, text) ==
    IF PathEndsIn(path, <<"c", "s", "v">>) THEN "csv"
    ELSE IF PathEndsIn(path, <<"t", "s", "v">>) THEN "tsv"
    ELSE IF \E suffix \in JsonExts : PathEndsIn(path, suffix) THEN "json"
    ELSE IF \E i \in 1..Len(text) :
                /\ text[i] \in {"{", "["}
                /\ \A k \in 1..(i - 1) : text[k] \in RegexWs
         THEN "json"
    ELSE IF \E i \in 1..Len(text) : text[i] = TAB THEN "tsv"
    ELSE "csv"

\* The parser the pass has used on the body it read, seen from its outcome.
ParserUsed(st) ==
    IF st.plotData = DsvRows(",", st.text) THEN "csv"
    ELSE IF st.plotData = DsvRows(TAB, st.text) THEN "tsv"
    ELSE IF \/ st.failedAt = "format" /\ st.error = <<"Failed to fetch data from URL: ">> \o JsonFamily(st.text).message
            \/ JsonFamily(st.text).ok /\ st.plotData = JsonFamily(st.text).plotData
         THEN "json"
    ELSE "none"

\* C11: in the async build the parser of a body that was read is chosen by
\* the suffix of the URL path (csv, tsv, json, geojson, topojson, in any
\* letter case) whatever the body holds; without such a suffix the body
\* decides: JSON-family if its first non-blank character is { or [, else TSV
\* if it holds a tab, else CSV.
C11_FormatPrecedence ==
    \A p \in Passes :
        (build = "async" /\ pass[p].text # <<>>) =>
            ParserUsed(pass[p]) =
                ParserByPrecedence(
                    URLpathname(UrlText(Get(pass[p].config, dataUrlKey))).pathname,
                    pass[p].text)

\* C11 witness: the body [1] fetched from a .csv URL was parsed as CSV.
C11_Witness ==
    \E p \in Passes :
        /\ build = "async"
        /\ pass[p].pc = "plot"
        /\ Get(pass[p].config, dataUrlKey) = JStr(UrlCsv)
        /\ pass[p].text = <<"[", "1", "]">>
        /\ pass[p].plotData = DsvRows(",", pass[p].text)

\* The order of the stages of a pass.
StageRank(pc) ==
    CASE pc = "idle" -> 0
      [] pc = "parse" -> 1
      [] pc = "resolve" -> 2
      [] pc = "awaitFetch" -> 3
      [] pc = "awaitBody" -> 4
      [] pc = "plot" -> 5
      [] pc = "awaitUser" -> 6
      [] pc = "catchPending" -> 7
      [] pc = "done" -> 8

\* What a pass has issued so far.
CallsOf(st) == <<st.fetches, st.bodyReads, st.userCalls, st.plotCalls>>

AtMostOnce ==
    \A p \in Passes :
        /\ pass[p].fetches <= 1
        /\ pass[p].bodyReads <= 1
        /\ pass[p].userCalls <= 1
        /\ pass[p].plotCalls <= 1

\* A step of a pass moves it to a later stage (or settles the promise of the
\* suspended user code), and a step of a pass that has failed issues no call,
\* keeps the failure and its error, and only reports it.
NoStageAgain ==
    \A p \in Passes :
        pass'[p] # pass[p] =>
            /\ \/ StageRank(pass'[p].pc) > StageRank(pass[p].pc)
               \/ /\ pass'[p].pc = pass[p].pc
                  /\ pass[p].user.state = "pending"
                  /\ pass'[p].user.state # "pending"
                  /\ CallsOf(pass'[p]) = CallsOf(pass[p])
            /\ pass[p].failedAt # "none" =>
                   /\ CallsOf(pass'[p]) = CallsOf(pass[p])
                   /\ pass'[p].failedAt = pass[p].failedAt
                   /\ pass'[p].error = pass[p].error
                   /\ pass'[p].pc = "done"
                   /\ pass'[p].plotData = pass[p].plotData
                   /\ pass'[p].config = pass[p].config

\* C12: in every render pass each stage runs at most once: at most one fetch,
\* one body read, one call of the user code, one call of Plot.plot; no step
\* goes back to an earlier stage, and after a failure no stage is retried,
\* re-entered or recovered.
C12_OneExecution == []AtMostOnce /\ [][NoStageAgain]_vars

\* C12 witness: the one fetch of the pass was rejected and the pass has ended
\* with that failure.
C12_Witness ==
    \E p \in Passes :
        /\ pass[p].pc = "done"
        /\ pass[p].fetches = 1
        /\ pass[p].failedAt = "fetch"
        /\ pass[p].error = <<"Failed to fetch data from URL: ">> \o FetchRejected
        /\ pass[p].bodyReads = 0

\* The records a pass goes through when it is the only one running.
RECURSIVE RunAlone(_, _)
RunAlone(b, S) ==
    LET next == UNION {PassSteps(b, st) : st \in S}
    IN  IF next \subseteq S THEN S ELSE RunAlone(b, S \cup next)

AloneTable ==
    [b \in Builds |->
        [i \in 1..Len(RenderInputs) |-> RunAlone(b, {NewPass(RenderInputs[i])})]]

\* The steps of a pass that runs alone, as pairs <<before, after>>.
AloneSteps ==
    [b \in Builds |->
        [i \in 1..Len(RenderInputs) |->
            UNION {{<<st, nx>> : nx \in PassSteps(b, st)} : st \in AloneTable[b][i]}]]

\* Whatever the other passes do, a pass is where it can be when run alone,
\* and so is its final outcome (the records with pc = "done").
AsWhenAlone ==
    \A p \in Passes : pass[p] \in AloneTable[build][BlockOf(p)]

\* A step is the step of one pass: it makes of that pass's record what one
\* step of the callback makes of that record alone, and leaves the
\* configuration, dataset, container and output element of every other pass
\* as they are.
OwnStateOnly ==
    \E p \in Passes :
        /\ <<pass[p], pass'[p]>> \in AloneSteps[build][BlockOf(p)]
        /\ \A q \in Passes \ {p} : pass'[q] = pass[q]

\* C13: for passes started together and every interleaving of them at their
\* awaits, each step reads and writes the state of one pass only, and every
\* pass ends with an outcome it has when run alone.
C13_Isolation == []AsWhenAlone /\ [][OwnStateOnly]_vars

\* C13 witness: the pass of the first block was suspended in its user code,
\* resumed and attached its graphic while the pass of the second block, which
\* has issued its fetch, waits for the body.
C13_Witness ==
    /\ build = "async"
    /\ pass[1].pc = "done"
    /\ pass[1].userCalls = 1
    /\ pass[1].plotContainer.kids = <<GraphicNode(UserArg(MarksSpec))>>
    /\ pass[2].pc = "awaitBody"
    /\ pass[2].fetches = 1
    /\ pass[2].el = <<>>

\* C14: a configuration without a code member, once its dataset is resolved,
\* gives Plot.plot the default specification: width 640, height 400, margin
\* 40 and exactly one dot mark over the resolved dataset itself; the user
\* function is neither compiled nor called.
C14_DefaultSpecification ==
    \A p \in Passes :
        (/\ ParsedOk(pass[p])
         /\ ~Has(pass[p].config, codeKey)
         /\ pass[p].pc = "done"
         /\ pass[p].dataFrom # "none") =>
            /\ pass[p].plotCalls = 1
            /\ pass[p].plotArg.kind = "default"
            /\ pass[p].plotArg.width = 640
            /\ pass[p].plotArg.height = 400
            /\ pass[p].plotArg.margin = 40
            /\ Len(pass[p].plotArg.marks) = 1
            /\ pass[p].plotArg.marks[1].mark = "dot"
            /\ pass[p].plotArg.marks[1].data = pass[p].plotData
            /\ pass[p].plotData \in {Get(pass[p].config, dataKey),
                                     IF build = "sync"
                                     THEN JSONparse(pass[p].text).val
                                     ELSE ParseBody(pass[p].ext, pass[p].text).plotData}
            /\ pass[p].userCalls = 0
            /\ pass[p].user = NoUser
            /\ pass[p].failedAt \in {"none", "render"}

\* C14 witness: {"data":[1]} has been rendered: the graphic of the default
\* specification over [1] is in the plot container.
C14_Witness ==
    \E p \in Passes :
        /\ pass[p].pc = "done"
        /\ pass[p].source = <<"{">> \o InlineData \o <<"}">>
        /\ pass[p].plotData = JArr(<<JNum(<<"1">>)>>)
        /\ pass[p].plotContainer.kids =
               <<GraphicNode([kind |-> "default", val |-> Undefined, width |-> 640,
                              height |-> 400, margin |-> 40,
                              marks |-> <<[mark |-> "dot",
                                           data |-> JArr(<<JNum(<<"1">>)>>)]>>])>>

\* Nothing after configuration parsing has happened in the pass.
NothingAfterParsing(st) ==
    /\ st.pc = "done"
    /\ st.config = Undefined
    /\ st.dataFrom = "none"
    /\ st.plotData = Undefined
    /\ st.fetches = 0
    /\ st.bodyReads = 0
    /\ ~st.plotContainer.created
    /\ st.userCalls = 0
    /\ st.plotCalls = 0

\* C15: when the direct parse of the source fails, the pass fails with
\* "Failed to parse JSON and couldn't find code section" if the regex finds no
\* code section, and with 'Failed to parse JSON: ' and the message of the
\* second parse if the text with the placeholder is still no JSON; in both
\* cases nothing after configuration parsing happens.
C15_RecoveryFailures ==
    \A p \in Passes :
        (Parsed(pass[p]) /\ ~JSONparse(pass[p].source).ok) =>
            LET codeMatch == CodeMatch(pass[p].source)
                withoutCode == ReplaceFirst(pass[p].source, codeMatch.all,
                                            CodeKey \o <<":">> \o Quoted(placeholder))
            IN  /\ ~codeMatch.found =>
                       /\ pass[p].error =
                              <<"Failed to parse JSON and couldn't find code section">>
                       /\ pass[p].el = RenderErrorText(pass[p])
                       /\ NothingAfterParsing(pass[p])
                /\ (codeMatch.found /\ ~JSONparse(withoutCode).ok) =>
                       /\ pass[p].error = <<"Failed to parse JSON: ">> \o JsonSyntaxError
                       /\ pass[p].el = RenderErrorText(pass[p])
                       /\ NothingAfterParsing(pass[p])

\* C15 witness: the source {x,"code":"a"} has a code section and is no JSON
\* with the placeholder either; the pass has ended with the wrapped error.
C15_Witness ==
    \E p \in Passes :
        /\ pass[p].pc = "done"
        /\ pass[p].path = "tolerant"
        /\ CodeMatch(pass[p].source).found
        /\ pass[p].failedAt = "parse"
        /\ pass[p].error = <<"Failed to parse JSON: ">> \o JsonSyntaxError

\* The text holds the two characters a b next to each other.
HoldsPair(s, a, b) == \E i \in 1..(Len(s) - 1) : s[i] = a /\ s[i + 1] = b

\* The tolerant recovery has made the configuration of the pass, an object.
Recovered(st) ==
    /\ Parsed(st)
    /\ st.path = "tolerant"
    /\ st.failedAt = "none"
    /\ st.config.t = "object"

\* C16 (as claimed): the recovered code is the captured payload with every
\* backslash-n made a line break, then every backslash-quote made a quote,
\* then every backslash left removed; and a captured payload that holds the
\* two characters backslash n yields a code that still holds them.
C16_EscapeReversalOrder ==
    \A p \in Passes :
        Recovered(pass[p]) =>
            LET g2 == CodeMatch(pass[p].source).g2
                code == Get(pass[p].config, codeKey)
            IN  /\ code = JStr(RemoveChar(ReplacePair(ReplacePair(g2, BSL, "n", NL),
                                                      BSL, QT, QT), BSL))
                /\ HoldsPair(g2, BSL, "n") => HoldsPair(code.s, BSL, "n")

\* C18: after a successful tolerant recovery the code of the configuration
\* is a string without any backslash, whatever the captured payload held.
C18_NoBackslashLeft ==
    \A p \in Passes :
        Recovered(pass[p]) =>
            /\ Get(pass[p].config, codeKey).t = "string"
            /\ \A i \in 1..Len(Get(pass[p].config, codeKey).s) :
                   Get(pass[p].config, codeKey).s[i] # BSL

\* C18 witness: the payload \a (a backslash that is part of the author's
\* code) was recovered as the code a.
C18_Witness ==
    \E p \in Passes :
        /\ Recovered(pass[p])
        /\ pass[p].given.payload = <<BSL, "a">>
        /\ CodeMatch(pass[p].source).g2 = <<BSL, "a">>
        /\ Get(pass[p].config, codeKey) = JStr(<<"a">>)

\* The graphic is the only content of the plot container, which is the only
\* content of the output element.
ShowsGraphic(st) ==
    /\ st.el = <<DivNode>>
    /\ Len(st.plotContainer.kids) = 1
    /\ st.plotContainer.kids[1].kind = "graphic"

\* An error message is displayed: in the output element, or in the plot
\* container it holds.
ShowsError(st) ==
    \/ \E i \in 1..Len(st.el) : st.el[i].kind = "text"
    \/ /\ \E i \in 1..Len(st.el) : st.el[i].kind = "div"
       /\ \E i \in 1..Len(st.plotContainer.kids) : st.plotContainer.kids[i].kind = "text"

\* C17: a pass that has ended shows the graphic as the only content of its
\* plot container, or an error message; never both and never neither.  In
\* both builds, and where the user code finished after the callback returned.
C17_OneTerminalState ==
    \A p \in Passes :
        pass[p].pc = "done" =>
            /\ ShowsGraphic(pass[p]) \/ ShowsError(pass[p])
            /\ ~(ShowsGraphic(pass[p]) /\ ShowsError(pass[p]))
            /\ ~(HoldsGraphic(pass[p]) /\ ShowsError(pass[p]))
            /\ ShowsGraphic(pass[p]) <=> pass[p].failedAt = "none"

\* C17 witness: the user code was suspended and rejected after the callback
\* had returned; the pass has ended with the error text in its container.
C17_Witness ==
    \E p \in Passes :
        /\ build = "async"
        /\ pass[p].pc = "done"
        /\ pass[p].settled
        /\ pass[p].user.state = "rejected"
        /\ pass[p].caughtBy = "promise"
        /\ pass[p].plotContainer.kids = GenerateErrorText(pass[p])
        /\ pass[p].el = <<DivNode>>

\* The sandbox has been entered: the user function was compiled (and the
\* compilation failed) or called.
SandboxInvoked(st) == st.userCalls > 0 \/ st.failedAt = "compile"

\* The pass has gone through the branch on config.code.
Branched(st) == st.plotContainer.created \/ st.plotCalls > 0 \/ SandboxInvoked(st)

\* C19 (as claimed): the sandbox is invoked exactly when code is a non-empty
\* string; otherwise the default specification is plotted and no user
\* function is compiled or called.
C19_NonEmptyString ==
    \A p \in Passes :
        (pass[p].pc = "done" /\ Branched(pass[p])) =>
            LET code == Get(pass[p].config, codeKey)
                nonEmptyString == code.t = "string" /\ code.s # <<>>
            IN  /\ SandboxInvoked(pass[p]) <=> nonEmptyString
                /\ ~nonEmptyString =>
                       (pass[p].plotCalls = 1 /\ pass[p].plotArg.kind = "default")

\* C19 (amended): the sandbox is invoked exactly when code is truthy: a
\* non-empty string, or a value that is no string and is truthy (a number
\* other than 0, true, an array, an object), whose text is compiled; a
\* configuration whose code is absent, null, false, 0 or the empty string
\* takes the default-plot path and no user function is compiled or called.
C19_TruthyCode ==
    \A p \in Passes :
        (pass[p].pc = "done" /\ Branched(pass[p])) =>
            LET code == Get(pass[p].config, codeKey)
                falsy == \/ ~Has(pass[p].config, codeKey)
                         \/ code \in {JNull, JFalse, JNum(<<"0">>), JStr(<<>>)}
            IN  /\ SandboxInvoked(pass[p]) <=> ~falsy
                /\ falsy =>
                       /\ pass[p].plotCalls = 1
                       /\ pass[p].plotArg.kind = "default"
                       /\ pass[p].user = NoUser
                /\ ~falsy => pass[p].plotArg.kind # "default"

\* C19 witness: the code of the configuration is the empty string and the
\* default specification has been plotted; no user function was called.
C19_Witness ==
    \E p \in Passes :
        /\ pass[p].pc = "done"
        /\ Get(pass[p].config, codeKey) = JStr(<<>>)
        /\ pass[p].plotArg.kind = "default"
        /\ pass[p].plotContainer.kids = <<GraphicNode(pass[p].plotArg)>>
        /\ pass[p].userCalls = 0

\* C20: the plot container exists only in a pass whose configuration was
\* parsed and whose dataset was resolved; until then the output element has
\* no child, and a pass that fails in parsing, in the configuration, in the
\* fetch or in the parsing of the body has made no container and holds the
\* error text alone.
C20_ContainerAfterData ==
    \A p \in Passes :
        /\ pass[p].plotContainer.created =>
               (ParsedOk(pass[p]) /\ pass[p].dataFrom \in {"inline", "fetch"})
        /\ pass[p].pc \in {"parse", "resolve", "awaitFetch", "awaitBody", "plot"} =>
               (pass[p].el = <<>> /\ ~pass[p].plotContainer.created)
        /\ pass[p].failedAt \in {"parse", "config", "fetch", "format"} =>
               /\ ~pass[p].plotContainer.created
               /\ pass[p].plotContainer.kids = <<>>
               /\ pass[p].el = RenderErrorText(pass[p])

\* C20 witness: the body of the fetch was no JSON; the pass has ended with
\* the error text alone in the output element and no container.
C20_Witness ==
    \E p \in Passes :
        /\ pass[p].pc = "done"
        /\ pass[p].failedAt = "format"
        /\ pass[p].bodyReads = 1
        /\ pass[p].text = <<"{">>
        /\ ~pass[p].plotContainer.created
        /\ pass[p].el = RenderErrorText(pass[p])

====
